---- MODULE Spec2Model ----
(***************************************************************************)
(* Model of the background-sync upload queue of Saral-KYC (the service     *)
(* worker part of src/server.js, lines 287-392): the 'sync' listener,      *)
(* processUploadQueue, openDB, getAllFromStore and deleteFromStore, run    *)
(* against an IndexedDB object store created with autoIncrement keys.      *)
(*                                                                         *)
(* Every await of the code is a step boundary: other drain cycles, puts    *)
(* of the foreground page and a termination of the worker by the host may  *)
(* interleave there.  IndexedDB serialises readwrite transactions on the   *)
(* same store, so one enumeration and one delete are atomic steps.         *)
(*                                                                         *)
(* The second part models the Express routes of the same file that write   *)
(* user records (lines 30-49, 69-98, 138-193, 209-240): register, document *)
(* upload, face scan and the admin status update.  A handler runs up to    *)
(* its next await in one step; the database answers one query at a time.   *)
(* Queries are taken to succeed, except for the insert that the unique     *)
(* index on `mobile` refuses.                                              *)
(***************************************************************************)
EXTENDS Integers, Sequences, FiniteSets, TLC

\* ------------------------------------------------------------------ bounds
MaxEnqueue == 2      \* puts of the foreground page over the store's lifetime
MaxCycles  == 2      \* 'sync-uploads' events delivered (drain cycles started)
MaxReqs    == 3      \* HTTP requests the server receives

\* --------------------------------------------------------------- constants
SYNC_TAG == "sync-uploads"
Tags     == {SYNC_TAG, "other-tag"}

\* The request descriptors the page queues: the two uploads of the KYC flow.
Requests ==
  { [url |-> "/api/kyc/document-upload", method |-> "POST",
     headers |-> "multipart", body |-> "document"],
    [url |-> "/api/kyc/face-scan", method |-> "POST",
     headers |-> "multipart", body |-> "face-scan"] }

\* HTTP statuses a replay can be answered with (the upload routes of this
\* repository answer 200, 400, 404 or 500; one success and one failure status
\* are kept) and the transport failure.
Statuses == {200, 500}
NETERR   == 0       \* fetch rejected: there is no response and no status
PENDING  == -1      \* fetch not settled yet
Outcomes == Statuses \cup {NETERR}

Keys   == 1..MaxEnqueue
Cycles == 1..MaxCycles

\* ------------------------------------------------------ the server's inputs
Reqs    == 1..MaxReqs
Mobiles == {"m1", "m2"}

\* userId of a request body: 0 is a missing one, the others are the ids of
\* the first and the second user, registered or not yet.
UserIdInputs == {0, 1, 2}

NOT_STARTED == "Not Started"
IN_PROGRESS == "In Progress"
VERIFIED    == "Verified"
REJECTED    == "Rejected"

\* enum of userSchema.kycStatus
KycStatuses == {NOT_STARTED, IN_PROGRESS, VERIFIED, REJECTED}

\* status of the body of an admin update: missing, the two accepted values
\* and one that is not accepted.
StatusInputs == {"", VERIFIED, REJECTED, IN_PROGRESS}

PENDING_RESP == 0    \* no response sent yet

VARIABLES
  store,      \* the upload_queue object store: key -> queued request value
  nextKey,    \* the store's key generator (autoIncrement)
  started,    \* number of drain cycles started so far
  lastTag,    \* tag of the sync event delivered last ("" before the first)
  cpc,        \* per cycle: position of processUploadQueue
  cerr,       \* per cycle: what the returned promise rejected with
  snapshot,   \* per cycle: `requests`, the items getAllFromStore resolved
  tasks,      \* per cycle: the async callbacks of requests.map, by index
  \* history, read only by the properties
  enqueued,   \* key -> value as put by the page
  delivered,  \* key -> number of replays answered with a 2xx status
  removedBy,  \* key -> cycles whose delete of that key found it in the store
  snapNext,   \* per cycle: value of nextKey when it enumerated
  \* the server
  users,      \* the users collection: _id -> user document
  reqs,       \* the HTTP requests received: slot -> handler state
  nreq        \* number of requests received

qvars == << store, nextKey, started, lastTag, cpc, cerr, snapshot, tasks,
            enqueued, delivered, removedBy, snapNext >>

kvars == << users, reqs, nreq >>

vars == << store, nextKey, started, lastTag, cpc, cerr, snapshot, tasks,
           enqueued, delivered, removedBy, snapNext, users, reqs, nreq >>

\* ----------------------------------------------------------------- helpers
RECURSIVE SetToSortedSeq(_)
SetToSortedSeq(S) ==
  IF S = {} THEN << >>
  ELSE LET m == CHOOSE x \in S : \A y \in S : x <= y
       IN  << m >> \o SetToSortedSeq(S \ {m})

\* { ...cursor.value, key: cursor.primaryKey }
Item(k, v) ==
  [url |-> v.url, method |-> v.method, headers |-> v.headers,
   body |-> v.body, key |-> k]

\* Mutation: the cursor loop resolves one record early.
getAllButLast(s) ==
  LET ks == SetToSortedSeq(DOMAIN s)
  IN  [i \in 1..(IF Len(ks) = 0 THEN 0 ELSE Len(ks) - 1) |->
         Item(ks[i], s[ks[i]])]

\* Mutation: the cursor is opened with direction 'prev'.
getAllReversed(s) ==
  LET ks == SetToSortedSeq(DOMAIN s)
  IN  [i \in 1..Len(ks) |->
         Item(ks[Len(ks) + 1 - i], s[ks[Len(ks) + 1 - i]])]

\* The cursor walks the store in ascending primary key order.
getAllFromStore(s) ==
  LET ks == SetToSortedSeq(DOMAIN s)
  IN  [i \in 1..Len(ks) |-> Item(ks[i], s[ks[i]])]

\* Mutation: the delete takes a key range ending at the key
\* (IDBKeyRange.upperBound(key)) in place of the key.
deleteThrough(s, key) == [k \in { j \in DOMAIN s : j > key } |-> s[k]]

\* Mutation: the queue is cleared after a successful upload (store.clear()).
deleteClear(s, key) == << >>

\* store.delete(key): removes the record if there is one.
deleteFromStore(s, key) == [k \in (DOMAIN s) \ {key} |-> s[k]]

\* Mutation: deleting a key that is no longer there is reported as an error.
deleteRejectsAbsent(s, key, fault) == fault \/ key \notin DOMAIN s

\* request.onerror of store.delete fires only when the storage layer fails;
\* deleting an absent key is a successful request.
deleteRejects(s, key, fault) == fault

\* Mutation: the response status is not looked at; any response counts.
responseAny(status) == TRUE

\* response.ok
responseOk(status) == status \in 200..299

\* Mutation: the catch block rethrows what it caught.
catchRethrow(cause) == cause

\* Mutation: the catch block rethrows the error made for a non-ok response.
catchRethrowStatus(cause) == IF cause = "status" THEN cause ELSE "none"

\* What the try/catch around one replay lets escape to Promise.all.
catchError(cause) == "none"

\* Mutation: fetch(req.url) without the init object: a bodiless GET.
fetchUrlOnly(item) ==
  [url |-> item.url, method |-> "GET", headers |-> "none", body |-> "none"]

\* fetch(req.url, { method: req.method, headers: req.headers, body: req.body })
fetchArgs(item) ==
  [url |-> item.url, method |-> item.method, headers |-> item.headers,
   body |-> item.body]

\* The position a task of the snapshot starts in: fetch() is issued for every
\* item during requests.map, before the first await returns control.  att
\* counts the fetches issued for the item, sent is what the fetch carries.
startTask(item) ==
  [pc |-> "fetch", res |-> PENDING, cause |-> "none", att |-> 1,
   sent |-> fetchArgs(item)]

\* Mutation: the catch block issues the replay again after a replay failure.
retryOnCatch(cause) ==
  IF cause \in {"transport", "status"} THEN "fetch" ELSE "caught"

\* Where a callback is after its catch block ran: it returns.
afterCatch(cause) == "caught"

\* Mutation: Promise.race in place of Promise.all.
anySettled(ts) ==
  ts = << >> \/ \E i \in DOMAIN ts : ts[i].pc \in {"done", "caught"}

\* Promise.all over the callbacks, none of which rejects: it resolves when
\* every callback has returned.
allSettled(ts) == \A i \in DOMAIN ts : ts[i].pc \in {"done", "caught"}

\* Mutation: the key is computed from the records present (last key + 1).
genKeyFromStore(next, s) ==
  IF DOMAIN s = {} THEN 1
  ELSE (CHOOSE m \in DOMAIN s : \A y \in DOMAIN s : y <= m) + 1

\* createObjectStore(..., { autoIncrement: true }): the key generator hands
\* out its current number, whatever the store holds.
genKey(next, s) == next

\* Mutation: the enumeration is wrapped in a try/catch that returns.
onEnumErrorSwallow(stage) == "resolved"

\* Where processUploadQueue ends when `await openDB()` or
\* `await getAllFromStore(store)` rejects: neither await is inside a try.
onEnumError(stage) == "rejected"

\* Mutation: the listener does not look at the tag.
startsDrainAny(tag) == TRUE

\* What the sync listener does with an event.
startsDrain(tag) == tag = SYNC_TAG

InFlight(c) == cpc[c] \in {"open", "list", "run"}

TaskIdx(c) == DOMAIN tasks[c]

\* ------------------------------------------------------- the server: helpers
\* A request slot: the handler's position and locals.  lstatus and lreason
\* are kycStatus and rejectionReason of the document the handler loaded.
\* The locals of a handler that has responded are gone.
NoReq ==
  [kind |-> "none", pc |-> "done", mobile |-> "", uid |-> 0, status |-> "",
   reason |-> "", lstatus |-> "", lreason |-> "", resp |-> PENDING_RESP]

\* new User({ fullName, mobile, password }) with the defaults of userSchema
NewUser(mobile) ==
  [mobile |-> mobile, kycStatus |-> NOT_STARTED, rejectionReason |-> "",
   docs |-> 0, faceScan |-> FALSE]

\* if (!fullName || !mobile || !password)
registerInvalid(mobile, others) == mobile = "" \/ ~others

\* User.findOne({ mobile }) finds a document
existingUser(us, mobile) == \E u \in DOMAIN us : us[u].mobile = mobile

\* Mutation: the schema declares no unique index on mobile.
noUniqueIndex(us, mobile) == FALSE

\* mobile: { unique: true }: the insert of a second document with the same
\* mobile is refused by the index and save() throws.
uniqueViolation(us, mobile) == \E u \in DOMAIN us : us[u].mobile = mobile

\* if (kycStatus === 'Not Started' || kycStatus === 'Rejected') 'In Progress'
uploadStatus(st) == IF st \in {NOT_STARTED, REJECTED} THEN IN_PROGRESS ELSE st

\* The validation of the admin update: the status sent for a refused body,
\* PENDING_RESP for an accepted one.
adminInvalid(uid, status) ==
  IF uid = 0 \/ status = "" THEN 400
  ELSE IF status \notin {VERIFIED, REJECTED} THEN 400
  ELSE PENDING_RESP

\* rejectionReason as the admin update sets it ("" is undefined)
reasonFor(status, reason) ==
  IF status = REJECTED
  THEN (IF reason # "" THEN reason ELSE "No reason provided.")
  ELSE ""

\* user.save() writes the paths the handler modified: a path assigned the
\* value it was loaded with is not written and keeps what the database has.
saved(db, loaded, new) == IF new # loaded THEN new ELSE db

Finished(r, code) ==
  [reqs[r] EXCEPT !.pc = "done", !.resp = code, !.lstatus = "",
                  !.lreason = "", !.reason = ""]

\* --------------------------------------------------------------------- Init
Init ==
  /\ store = << >>
  /\ nextKey = 1
  /\ started = 0
  /\ lastTag = ""
  /\ cpc = [c \in Cycles |-> "idle"]
  /\ cerr = [c \in Cycles |-> "none"]
  /\ snapshot = [c \in Cycles |-> << >>]
  /\ tasks = [c \in Cycles |-> << >>]
  /\ enqueued = << >>
  /\ delivered = [k \in Keys |-> 0]
  /\ removedBy = [k \in Keys |-> << >>]
  /\ snapNext = [c \in Cycles |-> 0]
  /\ users = << >>
  /\ nreq = 0
  /\ reqs = [r \in Reqs |-> NoReq]

\* ------------------------------------------------------------------ actions

\* The page queues a failed upload: store.put(value) with a generated key.
\* enqueued records the puts by their ordinal, which is the key the
\* generator of the store hands out.
Enqueue(v) ==
  /\ nextKey <= MaxEnqueue
  /\ store' = (genKey(nextKey, store) :> v) @@ store
  /\ enqueued' = (nextKey :> v) @@ enqueued
  /\ nextKey' = nextKey + 1
  /\ UNCHANGED << started, lastTag, cpc, cerr, snapshot, tasks, delivered,
                  removedBy, snapNext,
                  users, reqs, nreq >>

\* self.addEventListener('sync', ...): a matching tag starts one drain cycle,
\* which runs up to `await openDB()`.
Sync(tag) ==
  /\ lastTag' = tag
  /\ IF startsDrain(tag)
     THEN /\ started < MaxCycles
          /\ started' = started + 1
          /\ cpc' = [cpc EXCEPT ![started + 1] = "open"]
     ELSE UNCHANGED << started, cpc >>
  /\ UNCHANGED << store, nextKey, cerr, snapshot, tasks, enqueued,
                  delivered, removedBy, snapNext,
                  users, reqs, nreq >>

\* openDB settles: onsuccess resolves the connection, onerror rejects and the
\* rejection leaves processUploadQueue through `await openDB()`.
OpenDB(c, ok) ==
  /\ cpc[c] = "open"
  /\ IF ok
     THEN /\ cpc' = [cpc EXCEPT ![c] = "list"]
          /\ cerr' = cerr
     ELSE /\ cpc' = [cpc EXCEPT ![c] = onEnumError("open")]
          /\ cerr' = [cerr EXCEPT ![c] = "open"]
  /\ UNCHANGED << store, nextKey, started, lastTag, snapshot, tasks,
                  enqueued, delivered, removedBy, snapNext,
                  users, reqs, nreq >>

\* getAllFromStore settles.  On success requests.map starts one task per
\* item; on a cursor error the rejection leaves processUploadQueue.
List(c, ok) ==
  /\ cpc[c] = "list"
  /\ IF ok
     THEN LET items == getAllFromStore(store)
          IN  /\ snapshot' = [snapshot EXCEPT ![c] = items]
              /\ tasks' = [tasks EXCEPT
                             ![c] = [i \in DOMAIN items |-> startTask(items[i])]]
              /\ cpc' = [cpc EXCEPT ![c] = "run"]
              /\ cerr' = cerr
              /\ snapNext' = [snapNext EXCEPT ![c] = nextKey]
     ELSE /\ cpc' = [cpc EXCEPT ![c] = onEnumError("list")]
          /\ cerr' = [cerr EXCEPT ![c] = "list"]
          /\ UNCHANGED << snapshot, tasks, snapNext >>
  /\ UNCHANGED << store, nextKey, started, lastTag, enqueued, delivered,
                  removedBy,
                  users, reqs, nreq >>

\* An error thrown inside the callback of task i: the catch block logs it.
\* Whatever catchError lets through rejects Promise.all.
Caught(c, i, out, cause) ==
  /\ tasks' = [tasks EXCEPT ![c][i] =
                 [@ EXCEPT !.pc = afterCatch(cause), !.res = out,
                           !.cause = cause,
                           !.att = IF afterCatch(cause) = "fetch"
                                   THEN @ + 1 ELSE @]]
  /\ IF catchError(cause) = "none"
     THEN UNCHANGED << cpc, cerr >>
     ELSE /\ cpc' = [cpc EXCEPT ![c] = "rejected"]
          /\ cerr' = [cerr EXCEPT ![c] = catchError(cause)]

\* fetch of task i settles with outcome out.
Replay(c, i, out) ==
  /\ cpc[c] = "run"
  /\ i \in TaskIdx(c)
  /\ tasks[c][i].pc = "fetch"
  /\ LET k == snapshot[c][i].key
     IN  /\ delivered' = IF out \in 200..299
                         THEN [delivered EXCEPT ![k] = @ + 1]
                         ELSE delivered
         /\ IF out = NETERR
            THEN Caught(c, i, out, "transport")
            ELSE IF ~responseOk(out)
            THEN Caught(c, i, out, "status")
            ELSE \* the delete request is issued in its own transaction
                 /\ tasks' = [tasks EXCEPT ![c][i] =
                                [@ EXCEPT !.pc = "del", !.res = out]]
                 /\ UNCHANGED << cpc, cerr >>
  /\ UNCHANGED << store, nextKey, started, lastTag, snapshot, enqueued,
                  removedBy, snapNext,
                  users, reqs, nreq >>

\* The delete request of task i settles; fault is a failure of the storage
\* layer.
Delete(c, i, fault) ==
  /\ cpc[c] = "run"
  /\ i \in TaskIdx(c)
  /\ tasks[c][i].pc = "del"
  /\ LET k == snapshot[c][i].key
     IN  IF deleteRejects(store, k, fault)
         THEN /\ Caught(c, i, tasks[c][i].res,
                        IF fault THEN "storage" ELSE "request")
              /\ UNCHANGED << store, removedBy >>
         ELSE /\ store' = deleteFromStore(store, k)
              /\ removedBy' =
                   IF k \in DOMAIN store
                   THEN [removedBy EXCEPT ![k] = Append(@, c)]
                   ELSE removedBy
              /\ tasks' = [tasks EXCEPT ![c][i].pc = "done"]
              /\ UNCHANGED << cpc, cerr >>
  /\ UNCHANGED << nextKey, started, lastTag, snapshot, enqueued, delivered,
                  snapNext,
                  users, reqs, nreq >>

\* Promise.all resolves once every task has resolved.
Settle(c) ==
  /\ cpc[c] = "run"
  /\ allSettled(tasks[c])
  /\ cpc' = [cpc EXCEPT ![c] = "resolved"]
  /\ UNCHANGED << store, nextKey, started, lastTag, cerr, snapshot, tasks,
                  enqueued, delivered, removedBy, snapNext,
                  users, reqs, nreq >>

\* The host stops the worker: every cycle in flight ends where it is and its
\* pending requests are never applied.
Terminate ==
  /\ \E c \in Cycles : InFlight(c)
  /\ cpc' = [c \in Cycles |-> IF InFlight(c) THEN "terminated" ELSE cpc[c]]
  /\ UNCHANGED << store, nextKey, started, lastTag, cerr, snapshot, tasks,
                  enqueued, delivered, removedBy, snapNext,
                  users, reqs, nreq >>

Next ==
  \/ \E v \in Requests : Enqueue(v)
  \/ \E tag \in Tags : Sync(tag)
  \/ \E c \in Cycles, ok \in BOOLEAN : OpenDB(c, ok)
  \/ \E c \in Cycles, ok \in BOOLEAN : List(c, ok)
  \/ \E c \in Cycles, i \in Keys, out \in Outcomes : Replay(c, i, out)
  \/ \E c \in Cycles, i \in Keys, fault \in BOOLEAN : Delete(c, i, fault)
  \/ \E c \in Cycles : Settle(c)
  \/ Terminate

Spec == Init /\ [][Next]_vars

\* The worker while the host honours event.waitUntil: a cycle in flight is
\* not stopped.  Every request the code awaits (open, cursor, fetch, delete)
\* settles in the end and the callbacks of settled promises are run, which
\* is weak fairness of each step of each cycle; events and puts arrive as
\* they please.
LiveNext ==
  \/ \E v \in Requests : Enqueue(v)
  \/ \E tag \in Tags : Sync(tag)
  \/ \E c \in Cycles, ok \in BOOLEAN : OpenDB(c, ok)
  \/ \E c \in Cycles, ok \in BOOLEAN : List(c, ok)
  \/ \E c \in Cycles, i \in Keys, out \in Outcomes : Replay(c, i, out)
  \/ \E c \in Cycles, i \in Keys, fault \in BOOLEAN : Delete(c, i, fault)
  \/ \E c \in Cycles : Settle(c)

LiveSpec ==
  /\ Init
  /\ [][LiveNext]_vars
  /\ \A c \in Cycles :
       /\ WF_vars(\E ok \in BOOLEAN : OpenDB(c, ok))
       /\ WF_vars(\E ok \in BOOLEAN : List(c, ok))
       /\ WF_vars(Settle(c))
       /\ \A i \in Keys :
            /\ WF_vars(\E out \in Outcomes : Replay(c, i, out))
            /\ WF_vars(\E fault \in BOOLEAN : Delete(c, i, fault))

\* ------------------------------------------------------- the server: actions

\* POST /api/register, up to `await User.findOne`.
Register(mobile, others) ==
  /\ nreq < MaxReqs
  /\ nreq' = nreq + 1
  /\ reqs' = [reqs EXCEPT ![nreq + 1] =
       IF registerInvalid(mobile, others)
       THEN [NoReq EXCEPT !.kind = "register", !.resp = 400]
       ELSE [NoReq EXCEPT !.kind = "register", !.mobile = mobile,
                          !.pc = "find"]]
  /\ UNCHANGED << users, qvars >>

\* findOne answers: 409 for an existing user, else on to hashing and save.
RegFind(r) ==
  /\ reqs[r].kind = "register" /\ reqs[r].pc = "find"
  /\ reqs' = [reqs EXCEPT ![r] =
       IF existingUser(users, reqs[r].mobile)
       THEN Finished(r, 409)
       ELSE [@ EXCEPT !.pc = "save"]]
  /\ UNCHANGED << users, nreq, qvars >>

\* newUser.save() answers: 201, or the catch block's 500 when the unique
\* index refuses the insert.
RegSave(r) ==
  /\ reqs[r].kind = "register" /\ reqs[r].pc = "save"
  /\ IF uniqueViolation(users, reqs[r].mobile)
     THEN /\ reqs' = [reqs EXCEPT ![r] = Finished(r, 500)]
          /\ users' = users
     ELSE /\ users' = Append(users, NewUser(reqs[r].mobile))
          /\ reqs' = [reqs EXCEPT ![r] = Finished(r, 201)]
  /\ UNCHANGED << nreq, qvars >>

\* POST /api/kyc/document-upload ("doc") and POST /api/kyc/face-scan
\* ("face"), up to `await User.findById`.
Upload(kind, uid, hasFile) ==
  /\ nreq < MaxReqs
  /\ nreq' = nreq + 1
  /\ reqs' = [reqs EXCEPT ![nreq + 1] =
       IF ~hasFile
       THEN [NoReq EXCEPT !.kind = kind, !.resp = 400]
       ELSE [NoReq EXCEPT !.kind = kind, !.uid = uid, !.pc = "find"]]
  /\ UNCHANGED << users, qvars >>

\* findById answers: 404 for no user, else the handler changes its copy of
\* the document and calls save.
UpFind(r) ==
  /\ reqs[r].kind \in {"doc", "face"} /\ reqs[r].pc = "find"
  /\ reqs' = [reqs EXCEPT ![r] =
       IF reqs[r].uid \notin DOMAIN users
       THEN Finished(r, 404)
       ELSE [@ EXCEPT !.pc = "save",
                      !.lstatus = users[reqs[r].uid].kycStatus,
                      !.status = uploadStatus(users[reqs[r].uid].kycStatus)]]
  /\ UNCHANGED << users, nreq, qvars >>

\* user.save() of an upload answers: 200.
UpSave(r) ==
  /\ reqs[r].kind \in {"doc", "face"} /\ reqs[r].pc = "save"
  /\ LET u == reqs[r].uid
     IN  users' = [users EXCEPT ![u] =
           [@ EXCEPT
              !.kycStatus = saved(@, reqs[r].lstatus, reqs[r].status),
              !.docs = IF reqs[r].kind = "doc" THEN @ + 1 ELSE @,
              !.faceScan = IF reqs[r].kind = "face" THEN TRUE ELSE @]]
  /\ reqs' = [reqs EXCEPT ![r] = Finished(r, 200)]
  /\ UNCHANGED << nreq, qvars >>

\* POST /api/admin/update-kyc-status, up to `await User.findById`.
Admin(uid, status, reason) ==
  /\ nreq < MaxReqs
  /\ nreq' = nreq + 1
  /\ reqs' = [reqs EXCEPT ![nreq + 1] =
       IF adminInvalid(uid, status) # PENDING_RESP
       THEN [NoReq EXCEPT !.kind = "admin", !.uid = uid, !.status = status,
                          !.resp = adminInvalid(uid, status)]
       ELSE [NoReq EXCEPT !.kind = "admin", !.uid = uid, !.status = status,
                          !.reason = reason, !.pc = "find"]]
  /\ UNCHANGED << users, qvars >>

\* findById answers: 404 for no user, else the handler sets kycStatus and
\* rejectionReason on its copy and calls save.
AdminFind(r) ==
  /\ reqs[r].kind = "admin" /\ reqs[r].pc = "find"
  /\ reqs' = [reqs EXCEPT ![r] =
       IF reqs[r].uid \notin DOMAIN users
       THEN Finished(r, 404)
       ELSE [@ EXCEPT !.pc = "save",
                      !.lstatus = users[reqs[r].uid].kycStatus,
                      !.lreason = users[reqs[r].uid].rejectionReason]]
  /\ UNCHANGED << users, nreq, qvars >>

\* user.save() of the admin update answers: 200.
AdminSave(r) ==
  /\ reqs[r].kind = "admin" /\ reqs[r].pc = "save"
  /\ LET u == reqs[r].uid
     IN  users' = [users EXCEPT ![u] =
           [@ EXCEPT
              !.kycStatus = saved(@, reqs[r].lstatus, reqs[r].status),
              !.rejectionReason =
                 saved(@, reqs[r].lreason,
                       reasonFor(reqs[r].status, reqs[r].reason))]]
  /\ reqs' = [reqs EXCEPT ![r] = Finished(r, 200)]
  /\ UNCHANGED << nreq, qvars >>

KycNext ==
  \/ \E mobile \in Mobiles \cup {""}, others \in BOOLEAN :
       Register(mobile, others)
  \/ \E r \in Reqs : RegFind(r)
  \/ \E r \in Reqs : RegSave(r)
  \/ \E kind \in {"doc", "face"}, uid \in UserIdInputs, hasFile \in BOOLEAN :
       Upload(kind, uid, hasFile)
  \/ \E r \in Reqs : UpFind(r)
  \/ \E r \in Reqs : UpSave(r)
  \/ \E uid \in UserIdInputs, status \in StatusInputs,
        reason \in {"", "documents unreadable"} : Admin(uid, status, reason)
  \/ \E r \in Reqs : AdminFind(r)
  \/ \E r \in Reqs : AdminSave(r)

KycSpec == Init /\ [][KycNext]_vars

\* ------------------------------------------------------- property vocabulary
Range(f) == { f[x] : x \in DOMAIN f }

EnqKeys == DOMAIN enqueued

InStore(k) == k \in DOMAIN store

SnapKeys(c) == { snapshot[c][i].key : i \in DOMAIN snapshot[c] }

Enumerated(c) == snapNext[c] # 0

\* the replay of task i of cycle c was answered with a success status
ReplayOk(c, i) == tasks[c][i].res \in 200..299

\* the replay of task i of cycle c threw or was answered with a failure
ReplayFailed(c, i) == tasks[c][i].cause \in {"transport", "status"}

\* the delete of task i of cycle c ran into a failure of the storage layer
StoreFailed(c, i) == tasks[c][i].cause = "storage"

TaskSettled(c, i) == tasks[c][i].pc \in {"done", "caught"}

\* ----------------------------------------------------------------- claims

\* C1: delete-after-success / no loss.  In every reachable state an entry
\* that was enqueued and is no longer in the store was taken out by the
\* delete of a cycle whose own replay of that entry was answered with a
\* success status; so an entry with no successful replay is still stored.
C1_DeleteAfterSuccess ==
  \A k \in EnqKeys :
    ~InStore(k) =>
      /\ delivered[k] >= 1
      /\ removedBy[k] # << >>
      /\ \A c \in Range(removedBy[k]) :
           \E i \in TaskIdx(c) :
             /\ snapshot[c][i].key = k
             /\ ReplayOk(c, i)
             /\ tasks[c][i].pc = "done"

\* C1 witness: a cycle has completed in which one entry failed and is still
\* queued with no successful replay, while another was removed after one.
C1_Witness ==
  \E c \in Cycles : \E i, j \in TaskIdx(c) :
    /\ cpc[c] = "resolved"
    /\ ReplayFailed(c, i)
    /\ delivered[snapshot[c][i].key] = 0
    /\ InStore(snapshot[c][i].key)
    /\ ReplayOk(c, j)
    /\ ~InStore(snapshot[c][j].key)

\* C2 (as claimed): once a drain cycle has completed, no entry of its
\* snapshot whose replay was answered with a success status is in the store.
C2_SuccessRemoves ==
  \A c \in Cycles :
    cpc[c] = "resolved" =>
      \A i \in TaskIdx(c) : ReplayOk(c, i) => ~InStore(snapshot[c][i].key)

\* C3: isolation of per-entry failure.  When a cycle has ended, whatever the
\* other replays did, every entry of its snapshot has been replayed, every
\* entry whose replay succeeded and whose delete the storage layer did not
\* fail is out of the store, and every entry whose only replays failed is
\* still queued.
C3_Isolation ==
  \A c \in Cycles :
    cpc[c] \in {"resolved", "rejected"} =>
      \A i \in TaskIdx(c) :
        LET k == snapshot[c][i].key
        IN  /\ TaskSettled(c, i)
            /\ tasks[c][i].res # PENDING
            /\ (ReplayOk(c, i) /\ ~StoreFailed(c, i)) => ~InStore(k)
            /\ (ReplayFailed(c, i) /\ delivered[k] = 0) => InStore(k)

\* C3 witness: two entries, the first replay threw a transport error, the
\* second succeeded; after the cycle the first is queued, the second is not.
C3_Witness ==
  \E c \in Cycles :
    /\ cpc[c] = "resolved"
    /\ Len(snapshot[c]) = 2
    /\ tasks[c][1].cause = "transport"
    /\ InStore(snapshot[c][1].key)
    /\ tasks[c][2].pc = "done"
    /\ ~InStore(snapshot[c][2].key)

\* C4: concurrent drain safety.  When two cycles that both hold the same
\* entry in their snapshots have both seen its replay succeed and have both
\* had their delete settle without a storage failure, then both deletes
\* completed normally, the entry left the store through exactly one of them,
\* and a cycle that has completed has resolved without an error.
C4_ConcurrentDrain ==
  \A c1, c2 \in Cycles :
    \A i1 \in TaskIdx(c1), i2 \in TaskIdx(c2) :
      ( /\ c1 # c2
        /\ snapshot[c1][i1].key = snapshot[c2][i2].key
        /\ ReplayOk(c1, i1) /\ ReplayOk(c2, i2)
        /\ TaskSettled(c1, i1) /\ TaskSettled(c2, i2)
        /\ ~StoreFailed(c1, i1) /\ ~StoreFailed(c2, i2) )
      =>
      LET k == snapshot[c1][i1].key
      IN  /\ ~InStore(k)
          /\ Len(removedBy[k]) = 1
          /\ tasks[c1][i1].pc = "done" /\ tasks[c2][i2].pc = "done"
          /\ tasks[c1][i1].cause = "none" /\ tasks[c2][i2].cause = "none"
          /\ cpc[c1] # "rejected" /\ cpc[c2] # "rejected"
          /\ cerr[c1] = "none" /\ cerr[c2] = "none"

\* C4 witness: one entry, two cycles that both replayed it successfully and
\* both completed; the entry is gone and was removed by one delete.
C4_Witness ==
  /\ nextKey = 2
  /\ cpc[1] = "resolved" /\ cpc[2] = "resolved"
  /\ Len(snapshot[1]) = 1 /\ Len(snapshot[2]) = 1
  /\ tasks[1][1].pc = "done" /\ tasks[2][1].pc = "done"
  /\ ~InStore(1)
  /\ Len(removedBy[1]) = 1

\* C5: at-least-once with possible duplicates.  An entry whose replay was
\* answered with success but whose delete has not committed is still in the
\* store, unchanged, whatever became of the cycle, so the next enumeration
\* hands it out again; and an entry has at most one successful replay per
\* cycle that holds it in its snapshot.
C5_AtLeastOnce ==
  /\ \A c \in Cycles : \A i \in TaskIdx(c) :
       LET k == snapshot[c][i].key
       IN  (ReplayOk(c, i) /\ removedBy[k] = << >>) =>
             (InStore(k) /\ store[k] = enqueued[k])
  /\ \A k \in EnqKeys :
       delivered[k] <= Cardinality({ c \in Cycles : k \in SnapKeys(c) })

\* C5 witness: a cycle was terminated after the success response and before
\* its delete committed, and the entry has been delivered a second time.
C5_Witness ==
  \E c \in Cycles : \E i \in TaskIdx(c) :
    /\ cpc[c] = "terminated"
    /\ tasks[c][i].pc = "del"
    /\ delivered[snapshot[c][i].key] = 2

\* C6 (as claimed): a cycle in which the delete after a successful replay
\* failed in the storage layer does not complete normally: the promise of
\* processUploadQueue never resolves with such a failure inside.
C6_StoreErrorSurfaced ==
  \A c \in Cycles :
    cpc[c] = "resolved" => \A i \in TaskIdx(c) : ~StoreFailed(c, i)

\* C7: enumeration failure.  The step in which openDB or the enumeration of
\* a cycle fails rejects the promise of processUploadQueue, starts no replay
\* and leaves the store and every delivery as they were; a cycle that failed
\* so stays rejected with an empty set of replays and has deleted nothing.
C7_EnumFailure ==
  /\ [](\A c \in Cycles :
          cerr[c] \in {"open", "list"} =>
            /\ cpc[c] = "rejected"
            /\ tasks[c] = << >>
            /\ \A k \in Keys : c \notin Range(removedBy[k]))
  /\ [][\A c \in Cycles :
          (cerr[c] = "none" /\ cerr'[c] # "none") =>
            /\ cerr'[c] \in {"open", "list"}
            /\ cpc'[c] = "rejected"
            /\ tasks'[c] = << >>
            /\ store' = store
            /\ delivered' = delivered]_vars

\* C7 witness: with entries queued, one cycle failed to open the database,
\* another failed to enumerate, and the queue still holds every entry.
C7_Witness ==
  /\ cpc[1] = "rejected" /\ cerr[1] = "open"
  /\ cpc[2] = "rejected" /\ cerr[2] = "list"
  /\ nextKey = 3
  /\ DOMAIN store = {1, 2}

\* C8: replay failures are recovered locally.  No cycle is ever rejected with
\* a replay failure, and a cycle one of whose replays threw or was answered
\* with a failure status keeps running or resolves (or is stopped by the
\* host), its promise carrying no error.
C8_ReplayFailureLocal ==
  \A c \in Cycles :
    /\ cerr[c] \notin {"transport", "status"}
    /\ \A i \in TaskIdx(c) :
         ReplayFailed(c, i) =>
           /\ cpc[c] \in {"run", "resolved", "terminated"}
           /\ cerr[c] = "none"
           /\ tasks[c][i].pc = "caught"

\* C8 witness: a cycle resolved although one of its replays threw a
\* transport error and another was answered with a failure status.
C8_Witness ==
  \E c \in Cycles : \E i, j \in TaskIdx(c) :
    /\ cpc[c] = "resolved"
    /\ tasks[c][i].cause = "transport"
    /\ tasks[c][j].cause = "status"

\* C9: cancellation safety.  Once the host has terminated a drain cycle,
\* every enqueued entry without a successful replay is in the store under
\* its key with the content it was enqueued with.
C9_CancellationSafe ==
  (\E c \in Cycles : cpc[c] = "terminated") =>
    \A k \in EnqKeys :
      delivered[k] = 0 => (InStore(k) /\ store[k] = enqueued[k])

\* C9 witness: a cycle was terminated between a committed delete and a
\* replay still in flight; the undelivered entry is in the store.
C9_Witness ==
  \E c \in Cycles : \E i, j \in TaskIdx(c) :
    /\ cpc[c] = "terminated"
    /\ tasks[c][i].pc = "done"
    /\ tasks[c][j].pc = "fetch"
    /\ delivered[snapshot[c][j].key] = 0
    /\ InStore(snapshot[c][j].key)

\* C10 (as claimed): at the step in which a drain cycle completes, every
\* entry put after the cycle's enumeration is outside its snapshot and is
\* still in the store.
C10_PutDuringCycleStillStored ==
  [][\A c \in Cycles :
       (cpc[c] = "run" /\ cpc'[c] = "resolved") =>
         \A k \in EnqKeys :
           k >= snapNext[c] => (k \notin SnapKeys(c) /\ k \in DOMAIN store')]_vars

\* C10 (amended): snapshot semantics.  The snapshot of a cycle holds, once
\* each and with the content enqueued, the entries put before its enumeration
\* except those a delete had removed, and the cycle replays exactly these.
\* An entry put after the enumeration is not in the snapshot, is not deleted
\* by this cycle, and is in the store unless another cycle deleted it.
C10_SnapshotSemantics ==
  \A c \in Cycles :
    Enumerated(c) =>
      /\ DOMAIN tasks[c] = DOMAIN snapshot[c]
      /\ Len(snapshot[c]) = Cardinality(SnapKeys(c))
      /\ \A i \in DOMAIN snapshot[c] :
           /\ snapshot[c][i].key \in 1..(snapNext[c] - 1)
           /\ snapshot[c][i] =
                Item(snapshot[c][i].key, enqueued[snapshot[c][i].key])
      /\ \A k \in 1..(snapNext[c] - 1) :
           k \notin SnapKeys(c) => removedBy[k] # << >>
      /\ \A k \in EnqKeys :
           k >= snapNext[c] =>
             /\ k \notin SnapKeys(c)
             /\ c \notin Range(removedBy[k])
             /\ (InStore(k) \/ removedBy[k] # << >>)

\* C10 witness: the first cycle completed, the second entry was put after
\* its enumeration, is in the store and is in the second cycle's snapshot.
C10_Witness ==
  /\ cpc[1] = "resolved"
  /\ snapNext[1] = 2
  /\ InStore(2)
  /\ 2 \in SnapKeys(2)

\* C11: exactly one attempt per entry per cycle.  In every cycle that has
\* enumerated, each entry of the snapshot appears once and has one callback,
\* and exactly one fetch has been issued for it, whatever the outcomes of
\* the replays; a replay that failed is not issued again by that cycle.
C11_OneAttempt ==
  \A c \in Cycles :
    Enumerated(c) =>
      /\ Len(snapshot[c]) = Cardinality(SnapKeys(c))
      /\ DOMAIN tasks[c] = DOMAIN snapshot[c]
      /\ \A i \in TaskIdx(c) :
           /\ tasks[c][i].att = 1
           /\ ReplayFailed(c, i) => tasks[c][i].pc = "caught"

\* C11 witness: a completed cycle of two entries one of whose replays failed
\* after its single attempt; the next cycle holds that entry in its snapshot.
C11_Witness ==
  \E i \in TaskIdx(1) :
    /\ cpc[1] = "resolved"
    /\ Len(snapshot[1]) = 2
    /\ ReplayFailed(1, i)
    /\ tasks[1][i].att = 1
    /\ snapshot[1][i].key \in SnapKeys(2)

\* C13: idempotent deletion.  For every store the program reaches and every
\* key, the delete removes that key and nothing else, a second delete of the
\* key changes nothing, a delete of an absent key changes nothing and is no
\* error; and a callback whose delete found the key gone has completed
\* without an error.
C13_IdempotentDelete ==
  /\ \A k \in Keys :
       LET d == deleteFromStore(store, k)
       IN  /\ deleteFromStore(d, k) = d
           /\ k \notin DOMAIN store => d = store
           /\ DOMAIN d = (DOMAIN store) \ {k}
           /\ \A j \in DOMAIN d : d[j] = store[j]
           /\ ~deleteRejects(store, k, FALSE)
           /\ ~deleteRejects(d, k, FALSE)
  /\ \A c \in Cycles : \A i \in TaskIdx(c) :
       tasks[c][i].pc = "done" =>
         (tasks[c][i].cause = "none" /\ ~InStore(snapshot[c][i].key))

\* C13 witness: a callback has completed a delete of a key another cycle had
\* already removed, while another entry is in the store.
C13_Witness ==
  \E c \in Cycles : \E i \in TaskIdx(c) :
    /\ tasks[c][i].pc = "done"
    /\ c \notin Range(removedBy[snapshot[c][i].key])
    /\ store # << >>

\* C14: insertion-order enumeration.  The enumeration of every store the
\* program reaches holds exactly the entries of the store, each once with
\* its content, in ascending key order, which is the order of the puts, and
\* is empty for the empty store; the step that enumerates hands exactly this
\* to the cycle and leaves the store as it was.
C14_InsertionOrder ==
  /\ [](LET items == getAllFromStore(store)
        IN  /\ Len(items) = Cardinality(DOMAIN store)
            /\ { items[i].key : i \in DOMAIN items } = DOMAIN store
            /\ \A i \in DOMAIN items :
                 items[i] = Item(items[i].key, store[items[i].key])
            /\ \A i, j \in DOMAIN items :
                 i < j => items[i].key < items[j].key
            /\ (store = << >> => items = << >>))
  /\ [](\A c \in Cycles : \A i, j \in DOMAIN snapshot[c] :
          i < j => snapshot[c][i].key < snapshot[c][j].key)
  /\ [][\A c \in Cycles :
          (cpc[c] = "list" /\ cpc'[c] = "run") =>
            /\ store' = store
            /\ Len(snapshot'[c]) = Cardinality(DOMAIN store)
            /\ \A k \in DOMAIN store :
                 \E i \in DOMAIN snapshot'[c] :
                   snapshot'[c][i] = Item(k, store[k])]_vars

\* C14 witness: a cycle enumerated two entries, the first put first.
C14_Witness ==
  \E c \in Cycles :
    /\ Len(snapshot[c]) = 2
    /\ snapshot[c][1].key = 1
    /\ snapshot[c][2].key = 2
    /\ snapshot[c][1] = Item(1, enqueued[1])

C16_Frame ==
  /\ \A k \in DOMAIN store : k \in EnqKeys /\ store[k] = enqueued[k]
  /\ \A c \in Cycles : \A i \in TaskIdx(c) :
       LET k == snapshot[c][i].key
       IN  /\ snapshot[c][i] = Item(k, enqueued[k])
           /\ tasks[c][i].sent = enqueued[k]
  /\ \A k \in EnqKeys :
       ~InStore(k) =>
         \E c \in Cycles : \E i \in TaskIdx(c) :
           /\ snapshot[c][i].key = k
           /\ ReplayOk(c, i)
           /\ c \in Range(removedBy[k])

\* C16 witness: after a completed cycle that removed one entry, the other
\* entry is in the store as enqueued.
C16_Witness ==
  \E c \in Cycles :
    /\ cpc[c] = "resolved"
    /\ \E i \in TaskIdx(c) : tasks[c][i].pc = "done"
    /\ \E k \in DOMAIN store : store[k] = enqueued[k]
    /\ Cardinality(DOMAIN store) < Cardinality(EnqKeys)

\* C17: keys are never reused.  The keys handed out are the ordinals of the
\* puts, all below the generator's number; a key whose entry was deleted
\* never holds an entry again; and whatever entry is in the store under the
\* key of a callback of a cycle is the entry that callback replays.
C17_KeysNeverReused ==
  /\ EnqKeys = 1..(nextKey - 1)
  /\ \A k \in DOMAIN store : k < nextKey /\ store[k] = enqueued[k]
  /\ \A k \in Keys : removedBy[k] # << >> => ~InStore(k)
  /\ \A c \in Cycles : \A i \in TaskIdx(c) :
       LET k == snapshot[c][i].key
       IN  InStore(k) => Item(k, store[k]) = snapshot[c][i]

\* C17 witness: the first entry was deleted, a second was put after that
\* under a new key, and a stale delete of the first key is still pending in
\* a cycle that does not hold the second entry.
C17_Witness ==
  \E c \in Cycles : \E i \in TaskIdx(c) :
    /\ tasks[c][i].pc = "del"
    /\ snapshot[c][i].key = 1
    /\ removedBy[1] # << >>
    /\ InStore(2)
    /\ 2 \notin SnapKeys(c)

\* C12: cycle completion.  A cycle has resolved only if every callback of its
\* snapshot has returned, each replay answered and each delete settled, and a
\* cycle over an empty snapshot has no replay at all; and, every awaited
\* request settling in the end, every started cycle eventually settles.
C12_Completion ==
  /\ [](\A c \in Cycles :
          cpc[c] = "resolved" =>
            /\ Enumerated(c)
            /\ DOMAIN tasks[c] = DOMAIN snapshot[c]
            /\ \A i \in TaskIdx(c) :
                 /\ TaskSettled(c, i)
                 /\ tasks[c][i].res # PENDING)
  /\ \A c \in Cycles :
       (cpc[c] # "idle") ~> (cpc[c] \in {"resolved", "rejected"})

\* C12 witness: one cycle resolved over an empty store without any replay,
\* another resolved after a failed replay and a committed delete.
C12_Witness ==
  /\ cpc[1] = "resolved" /\ snapshot[1] = << >> /\ tasks[1] = << >>
  /\ cpc[2] = "resolved" /\ Len(snapshot[2]) = 2
  /\ \E i, j \in TaskIdx(2) :
       tasks[2][i].pc = "caught" /\ tasks[2][j].pc = "done"

\* C18: eventual delivery.  An entry with no successful replay is in the
\* store and is in the snapshot of every cycle that enumerates after its put,
\* with no limit on the number of cycles; and once a replay of an entry has
\* been answered with success in some cycle, the entry is eventually out of
\* the store unless the delete of that cycle fails in the storage layer.
C18_EventualDelivery ==
  /\ [](\A k \in EnqKeys :
          delivered[k] = 0 =>
            /\ InStore(k)
            /\ \A c \in Cycles :
                 (Enumerated(c) /\ k < snapNext[c]) => k \in SnapKeys(c))
  /\ \A c \in Cycles : \A i \in Keys :
       (i \in TaskIdx(c) /\ ReplayOk(c, i))
         ~> (i \in TaskIdx(c) /\
               (~InStore(snapshot[c][i].key) \/ StoreFailed(c, i)))

\* C18 witness: the replay of an entry failed in the first cycle, the second
\* cycle replayed it again with success and the entry is out of the store.
C18_Witness ==
  \E i \in TaskIdx(1) : \E j \in TaskIdx(2) :
    /\ cpc[1] = "resolved"
    /\ ReplayFailed(1, i)
    /\ snapshot[2][j].key = snapshot[1][i].key
    /\ tasks[2][j].pc = "done"
    /\ ~InStore(snapshot[1][i].key)

\* the response of request r is sent in this step, with status code
Responded(r, code) == reqs[r].resp = PENDING_RESP /\ reqs'[r].resp = code

Registered(mobile) == \E u \in DOMAIN users : users[u].mobile = mobile

Created(mobile) ==
  { r \in Reqs : reqs[r].kind = "register" /\ reqs[r].mobile = mobile
                 /\ reqs[r].resp = 201 }

\* C19 (as claimed): the KYC status state machine.  kycStatus of every user
\* is one of the four values and starts at 'Not Started'; the step in which
\* an upload is answered 200 takes the status of its user from 'Not Started'
\* or 'Rejected' to 'In Progress' and leaves 'In Progress' and 'Verified' as
\* they are; a status becomes 'Verified' or 'Rejected' only in the step in
\* which an admin update of that user to that status is answered 200; an
\* admin update with a missing userId or status or another status is
\* answered 400, one for an unknown user 404, and a step answering an admin
\* update with 400 or 404 leaves every user record unchanged.
C19_KycStateMachine ==
  /\ [](\A u \in DOMAIN users : users[u].kycStatus \in KycStatuses)
  /\ [][/\ \A u \in (DOMAIN users') \ (DOMAIN users) :
             users'[u].kycStatus = NOT_STARTED
        /\ \A r \in Reqs :
             (reqs[r].kind \in {"doc", "face"} /\ Responded(r, 200)) =>
               LET u == reqs[r].uid
               IN  /\ users[u].kycStatus \in {NOT_STARTED, REJECTED} =>
                        users'[u].kycStatus = IN_PROGRESS
                   /\ users[u].kycStatus \in {IN_PROGRESS, VERIFIED} =>
                        users'[u].kycStatus = users[u].kycStatus
        /\ \A u \in DOMAIN users :
             ( /\ users'[u].kycStatus # users[u].kycStatus
               /\ users'[u].kycStatus \in {VERIFIED, REJECTED} ) =>
               \E r \in Reqs :
                 /\ reqs[r].kind = "admin" /\ Responded(r, 200)
                 /\ reqs[r].uid = u
                 /\ reqs[r].status = users'[u].kycStatus
        /\ \A r \in Reqs :
             /\ ( /\ reqs[r].kind = "none" /\ reqs'[r].kind = "admin"
                  /\ \/ reqs'[r].uid = 0
                     \/ reqs'[r].status \notin {VERIFIED, REJECTED} ) =>
                  reqs'[r].resp = 400
             /\ ( /\ reqs[r].kind = "admin" /\ reqs[r].pc = "find"
                  /\ reqs'[r].pc # "find"
                  /\ reqs[r].uid \notin DOMAIN users ) =>
                  reqs'[r].resp = 404
             /\ ( /\ reqs'[r].kind = "admin"
                  /\ Responded(r, 400) \/ Responded(r, 404) ) =>
                  users' = users]_vars

\* C20: registration uniqueness under concurrency.  No two user records
\* share a mobile number, at most one registration per mobile number is
\* answered 201, and the user records are those of the registrations
\* answered 201 (no other registration created one); and when the
\* lookup of a registration is answered while its mobile number is
\* registered, the request is answered 409 and no user is created.
C20_RegistrationUnique ==
  /\ [](\A u, v \in DOMAIN users :
          u # v => users[u].mobile # users[v].mobile)
  /\ [](\A m \in Mobiles : Cardinality(Created(m)) <= 1)
  /\ [](\A u \in DOMAIN users : Cardinality(Created(users[u].mobile)) = 1)
  /\ [](\A m \in Mobiles : Created(m) # {} => Registered(m))
  /\ [][\A r \in Reqs :
          ( /\ reqs[r].kind = "register" /\ reqs[r].pc = "find"
            /\ reqs'[r].pc # "find"
            /\ Registered(reqs[r].mobile) ) =>
            (reqs'[r].resp = 409 /\ users' = users)]_vars

\* C20 witness: three registrations of one mobile number, two of them
\* racing: one was answered 201, the one that lost the race 500, and one
\* that came after 409; there is one user record.
C20_Witness ==
  /\ Len(users) = 1
  /\ \E a, b, c \in Reqs :
       /\ reqs[a].kind = "register" /\ reqs[a].resp = 201
       /\ reqs[b].kind = "register" /\ reqs[b].resp = 500
       /\ reqs[c].kind = "register" /\ reqs[c].resp = 409
       /\ reqs[a].mobile = reqs[b].mobile
       /\ reqs[a].mobile = reqs[c].mobile

====
